---- MODULE Spec2Model ----
(***************************************************************************)
(* Leveson-Based Trade Assessment Scale (src/lbtas.rs): the rating store   *)
(* LevesonRatingSystem, its JSON persistence, its reports and exports, and  *)
(* the commands of main.                                                   *)
(*                                                                         *)
(* Option<T> is a sequence of length at most one: None is << >> and        *)
(* Some(x) is <<x>>.  A Result is named by its outcome: "Ok" or the error. *)
(***************************************************************************)
EXTENDS Integers, Sequences, FiniteSets, TLC

VARIABLES
    categories,    \* LevesonRatingSystem.categories
    storage_path,  \* LevesonRatingSystem.storage_path
    exchanges,     \* LevesonRatingSystem.exchanges: name -> ExchangeData
    file,          \* the content of the file at the storage path
    op,            \* the operation that returned last
    result,        \* what it returned (main: the exit code)
    flushed,       \* whether it wrote the document to the file
    failed_saves,  \* the writes that have failed since the store was constructed
    output,        \* the content of the file at an export's output path
    procs          \* the processes that run at the same time: pid -> process

vars == <<categories, storage_path, exchanges, file, op, result, flushed,
          failed_saves, output, procs>>

None == << >>
Some(x) == <<x>>

(***************************************************************************)
(* Bounds and input sets.                                                  *)
(***************************************************************************)
\* most ratings a store holds in the model (over all exchanges, categories)
MaxRatings == 2
\* most writes of the storage file that fail while one store is in use
MaxFailedSaves == 1

\* exchange names given to the operations
Names == {"acme", "b"}
\* every exchange name of the model, in the order of String's Ord
\* (get_all_exchanges sorts)
NamesSorted == <<"a", "acme", "b", "c", "d", "e", "f">>
\* criterion names given to add_rating: two of the struct's fields, a name
\* that is no field, and a field's name in another case
Criteria == {"reliability", "support", "speed", "Reliability"}
\* rating values given to add_rating (i8)
RatingInputs == {-2, -1, 4, 5}
\* the <rating> argument of the command line: 200 is no i8
RatingArgs == {-1, 4, 7, 200}
\* what Utc::now().to_rfc3339() returns
Timestamps == {"2024-01-01T00:00:00+00:00"}
\* what fs::write(path, data) meets.  It is File::create(path)?.write_all(data):
\* the content is replaced; or create fails and the file is as it was; or
\* create has emptied the file and write_all fails part way
IoOutcomes == {"ok", "create fails", "write fails"}

I8 == -128 .. 127

\* const DEFAULT_CATEGORIES
DEFAULT_CATEGORIES == <<"reliability", "usability", "performance", "support">>
\* the `categories` argument of new
CategoryArgs == {None, Some(<<"reliability", "speed">>)}
\* the storage file of main
STORAGE == "lbtas_ratings.json"
\* the `storage_path` argument of new
StoragePathArgs == {None, Some(STORAGE)}

Range(s) == {s[i] : i \in 1 .. Len(s)}

(***************************************************************************)
(* ExchangeData                                                            *)
(***************************************************************************)
\* the four Vec<i8> fields of struct ExchangeData
Fields == {"reliability", "usability", "performance", "support"}

ExchangeData_new(now) ==
    [reliability |-> << >>, usability |-> << >>, performance |-> << >>,
     support |-> << >>,
     metadata |-> [created |-> now, total_ratings |-> 0]]

\* Some(field) for the four field names, None for any other name
get_category(ed, category) ==
    IF category \in Fields THEN Some(ed[category]) ELSE None

\* the same match, giving the field to write to
get_category_mut(ed, category) ==
    IF category \in Fields THEN Some(category) ELSE None

(***************************************************************************)
(* The persisted document.  A file is missing, holds text serde_json       *)
(* cannot parse, or holds a JSON object: a set of members <<key, value>>,  *)
(* each value an object with the serde names of ExchangeData's fields.     *)
(***************************************************************************)
Missing == [kind |-> "missing", doc |-> {}]
\* text that is no JSON document, such as a document cut short
Malformed == [kind |-> "malformed", doc |-> {}]
Document(d) == [kind |-> "doc", doc |-> d]

\* ExchangeToJson without #[serde(rename = "_metadata")]
ExchangeToJsonUnrenamed(ed) ==
    [reliability |-> ed.reliability, usability |-> ed.usability,
     performance |-> ed.performance, support |-> ed.support,
     metadata |-> [created |-> ed.metadata.created,
                   total_ratings |-> ed.metadata.total_ratings]]

\* Serialize for ExchangeData: metadata is renamed "_metadata"
ExchangeToJson(ed) ==
    [reliability |-> ed.reliability, usability |-> ed.usability,
     performance |-> ed.performance, support |-> ed.support,
     _metadata |-> [created |-> ed.metadata.created,
                    total_ratings |-> ed.metadata.total_ratings]]

\* Serialize for StorageData: the map is flattened into the top object
to_string_pretty(exs) == {<<n, ExchangeToJson(exs[n])>> : n \in DOMAIN exs}

\* Deserialize for ExchangeData: every field is required, a rating is an i8,
\* total_ratings a usize; nothing else is checked
JsonIsExchange(j) ==
    /\ (Fields \cup {"_metadata"}) \subseteq DOMAIN j
    /\ \A f \in Fields : \A i \in 1 .. Len(j[f]) : j[f][i] \in I8
    /\ j["_metadata"].total_ratings >= 0

JsonToExchange(j) ==
    [reliability |-> j["reliability"], usability |-> j["usability"],
     performance |-> j["performance"], support |-> j["support"],
     metadata |-> [created |-> j["_metadata"].created,
                   total_ratings |-> j["_metadata"].total_ratings]]

\* serde_json::from_str::<StorageData>
from_str(f) ==
    IF f.kind = "doc" /\ \A m \in f.doc : JsonIsExchange(m[2])
    THEN [res |-> "Ok",
          exchanges |-> [n \in {m[1] : m \in f.doc} |->
                           JsonToExchange((CHOOSE m \in f.doc : m[1] = n)[2])]]
    ELSE [res |-> "Err", exchanges |-> << >>]

(***************************************************************************)
(* LevesonRatingSystem.  `self` is [categories, storage_path, exchanges];  *)
(* an operation gives the store and the file after it, its result, and     *)
(* whether it handed the document to fs::write.                            *)
(***************************************************************************)
System(c, p, e) == [categories |-> c, storage_path |-> p, exchanges |-> e]

NoExchanges == [n \in {} |-> 0]

load_from_file(self, f) ==
    IF self.storage_path # None /\ f.kind # "missing"
    THEN LET storage == from_str(f) IN
         IF storage.res = "Ok"
         THEN [self |-> System(self.categories, self.storage_path, storage.exchanges),
               res |-> "Ok"]
         ELSE [self |-> self, res |-> "Err"]
    ELSE [self |-> self, res |-> "Ok"]

\* `let _ = system.load_from_file()`: the Result is dropped
new(path, cats, f) ==
    LET cs == IF cats = None THEN DEFAULT_CATEGORIES ELSE cats[1]
        system == System(cs, path, NoExchanges)
    IN  IF system.storage_path # None
        THEN load_from_file(system, f).self
        ELSE system

save_to_file(self, f, io) ==
    IF self.storage_path # None
    THEN IF io = "ok"
         THEN [file |-> Document(to_string_pretty(self.exchanges)),
               res |-> "Ok", flushed |-> TRUE]
         ELSE [file |-> IF io = "write fails" THEN Malformed ELSE f,
               res |-> "SaveFailure", flushed |-> FALSE]
    ELSE [file |-> f, res |-> "Ok", flushed |-> FALSE]

Outcome(self, f, res, fl) ==
    [self |-> self, file |-> f, res |-> res, flushed |-> fl]

\* add_exchange without the contains_key check: insert replaces the entry
add_exchange_overwrites(self, f, name, now, io) ==
    LET inserted == System(self.categories, self.storage_path,
                           (name :> ExchangeData_new(now)) @@ self.exchanges)
        saved == save_to_file(inserted, f, io)
    IN  Outcome(inserted, saved.file, saved.res, saved.flushed)

add_exchange(self, f, name, now, io) ==
    IF name \in DOMAIN self.exchanges
    THEN Outcome(self, f, "DuplicateExchange", FALSE)
    ELSE LET inserted == System(self.categories, self.storage_path,
                                (name :> ExchangeData_new(now)) @@ self.exchanges)
             saved == save_to_file(inserted, f, io)
         IN  Outcome(inserted, saved.file, saved.res, saved.flushed)

\* Push with `exchange.metadata.total_ratings += 1` left out
PushUncounted(ed, field, rating) ==
    [ed EXCEPT ![field] = Append(@, rating)]

\* Push with the rating inserted at the front of the field
PushFront(ed, field, rating) ==
    [ed EXCEPT ![field] = <<rating>> \o @,
               !.metadata.total_ratings = @ + 1]

\* the exchange with `rating` pushed to the field and the counter incremented
Push(ed, field, rating) ==
    [ed EXCEPT ![field] = Append(@, rating),
               !.metadata.total_ratings = @ + 1]

\* add_rating with the push moved before the range check
add_rating_pushes_first(self, f, exchange_name, criterion, rating, io) ==
    IF exchange_name \notin DOMAIN self.exchanges
    THEN Outcome(self, f, "UnknownExchange", FALSE)
    ELSE IF criterion \notin Range(self.categories)
    THEN Outcome(self, f, "InvalidCategory", FALSE)
    ELSE LET category == get_category_mut(self.exchanges[exchange_name], criterion) IN
         IF category # None
         THEN LET pushed == System(self.categories, self.storage_path,
                                [self.exchanges EXCEPT ![exchange_name] =
                                     Push(@, category[1], rating)])
                  saved == save_to_file(pushed, f, io)
              IN  IF rating < -1 \/ rating > 4
                  THEN Outcome(pushed, f, "RatingOutOfRange", FALSE)
                  ELSE Outcome(pushed, saved.file, saved.res, saved.flushed)
         ELSE Outcome(self, f, "NoSuchField", FALSE)

add_rating(self, f, exchange_name, criterion, rating, io) ==
    IF exchange_name \notin DOMAIN self.exchanges
    THEN Outcome(self, f, "UnknownExchange", FALSE)
    ELSE IF criterion \notin Range(self.categories)
    THEN Outcome(self, f, "InvalidCategory", FALSE)
    ELSE IF rating < -1 \/ rating > 4
    THEN Outcome(self, f, "RatingOutOfRange", FALSE)
    ELSE LET category == get_category_mut(self.exchanges[exchange_name], criterion) IN
         IF category # None
         THEN LET pushed == System(self.categories, self.storage_path,
                                [self.exchanges EXCEPT ![exchange_name] =
                                     Push(@, category[1], rating)])
                  saved == save_to_file(pushed, f, io)
              IN  Outcome(pushed, saved.file, saved.res, saved.flushed)
         ELSE Outcome(self, f, "NoSuchField", FALSE)

RECURSIVE Sum(_)
Sum(s) == IF s = << >> THEN 0 ELSE Head(s) + Sum(Tail(s))

\* the sum of F over the elements of a set
RECURSIVE SumOver(_, _)
SumOver(F(_), S) ==
    IF S = {} THEN 0
    ELSE LET x == CHOOSE y \in S : TRUE IN F(x) + SumOver(F, S \ {x})

\* (sum as f64 / len as f64 * 100.0).round(), the mean in hundredths: f64's
\* round goes to the nearest integer, half away from zero
MeanHundredths(s) ==
    LET p == 100 * Sum(s)
        q == Len(s)
    IN  IF p >= 0 THEN (2 * p + q) \div (2 * q)
        ELSE -((2 * (-p) + q) \div (2 * q))

\* the summary maps each configured criterion that names a field to
\* Some(mean) or, for an empty sequence, None
view_ratings(self, name) ==
    IF name \notin DOMAIN self.exchanges
    THEN [res |-> "UnknownExchange", ratings |-> << >>]
    ELSE LET exchange == self.exchanges[name] IN
         [res |-> "Ok",
          ratings |->
              [criterion \in {c \in Range(self.categories) :
                                 get_category(exchange, c) # None} |->
                  LET category == get_category(exchange, criterion)[1] IN
                  IF category # << >>
                  THEN Some(MeanHundredths(category))
                  ELSE None]]

get_all_exchanges(self) ==
    SelectSeq(NamesSorted, LAMBDA n : n \in DOMAIN self.exchanges)

(***************************************************************************)
(* The interactive rating.  `stdin` is the lines the process will read,    *)
(* `ios` what its writes of the storage file meet, one after the other.    *)
(***************************************************************************)
\* input.trim().parse::<i8>() of the lines of the model
parse_i8(input) ==
    CASE input = "-1" -> Some(-1)
      [] input = "4" -> Some(4)
      [] input = "7" -> Some(7)
      [] OTHER -> None

\* the loop of get_rating: the first line that is an i8 in [-1, 4] is
\* returned; a read that fails is returned as the error; at the end of the
\* input every read gives an empty line, and the loop never ends
RECURSIVE get_rating(_)
get_rating(stdin) ==
    IF stdin = << >> THEN [res |-> "NeverReturns", rating |-> 0, stdin |-> stdin]
    ELSE IF Head(stdin) = "read fails"
    THEN [res |-> "Err", rating |-> 0, stdin |-> Tail(stdin)]
    ELSE LET rating == parse_i8(Head(stdin)) IN
         IF rating # None /\ rating[1] >= -1 /\ rating[1] <= 4
         THEN [res |-> "Ok", rating |-> rating[1], stdin |-> Tail(stdin)]
         ELSE get_rating(Tail(stdin))

\* `for criterion in self.categories.clone()`, from `criteria` on
RECURSIVE rate_criteria(_, _, _, _, _, _, _)
rate_criteria(self, f, name, criteria, stdin, ios, fl) ==
    IF criteria = << >> THEN Outcome(self, f, "Ok", fl)
    ELSE LET got == get_rating(stdin) IN
         IF got.res # "Ok" THEN Outcome(self, f, got.res, fl)
         ELSE LET added == add_rating(self, f, name, Head(criteria), got.rating,
                                      Head(ios))
              IN  IF added.res # "Ok"
                  THEN Outcome(added.self, added.file, added.res,
                               fl \/ added.flushed)
                  ELSE rate_criteria(added.self, added.file, name, Tail(criteria),
                                     got.stdin, Tail(ios), fl \/ added.flushed)

\* rate_exchange that rates the first category only
rate_exchange_first_only(self, f, name, stdin, ios) ==
    IF name \notin DOMAIN self.exchanges
    THEN Outcome(self, f, "UnknownExchange", FALSE)
    ELSE rate_criteria(self, f, name, SubSeq(self.categories, 1, 1), stdin, ios,
                       FALSE)

rate_exchange(self, f, name, stdin, ios) ==
    IF name \notin DOMAIN self.exchanges
    THEN Outcome(self, f, "UnknownExchange", FALSE)
    ELSE rate_criteria(self, f, name, self.categories, stdin, ios, FALSE)

(***************************************************************************)
(* Reports.  An f64 average is the quotient it stands for, a reduced       *)
(* fraction <<p, q>> with q > 0: sums of i8 as i32 are exact, and the      *)
(* rounding of f64 division is left out.                                   *)
(***************************************************************************)
RECURSIVE GCD(_, _)
GCD(a, b) == IF b = 0 THEN a ELSE GCD(b, a % b)

Ratio(p, q) ==
    LET g == GCD(IF p < 0 THEN -p ELSE p, q) IN <<p \div g, q \div g>>

RatioAdd(x, y) == Ratio(x[1] * y[2] + y[1] * x[2], x[2] * y[2])

RatioLess(x, y) == x[1] * y[2] < y[1] * x[2]

\* `sum as f64 / ratings.len() as f64` of a sequence that is not empty
Mean(ratings) == Ratio(Sum(ratings), Len(ratings))

\* `values.iter().sum::<f64>() / values.len() as f64`
RECURSIVE RatioSum(_)
RatioSum(values) ==
    IF values = << >> THEN Ratio(0, 1)
    ELSE RatioAdd(Head(values), RatioSum(Tail(values)))

MeanOfRatios(values) ==
    LET sum == RatioSum(values) IN Ratio(sum[1], sum[2] * Len(values))

\* the sequences of `items` mapped by F and those that F maps to << >> left
\* out, concatenated in order
RECURSIVE FlatMap(_, _)
FlatMap(F(_), items) ==
    IF items = << >> THEN << >>
    ELSE F(Head(items)) \o FlatMap(F, Tail(items))

\* the orders in which a HashMap with key set S can iterate: any
IterationOrders(S) ==
    LET keys == SelectSeq(NamesSorted, LAMBDA n : n \in S) IN
    {[i \in 1 .. Len(keys) |-> p[keys[i]]] : p \in Permutations(S)}

\* the ratings generate_report takes from one category of one exchange:
\* those of a configured category that names a field
Rated(exchange_data, category) ==
    LET ratings == get_category(exchange_data, category) IN
    IF ratings # None THEN ratings[1] ELSE << >>

\* exchange_ratings as the one mean of all the ratings of the exchange
exchange_ratings_flat(self, exchange_data) ==
    LET all == FlatMap(LAMBDA category : Rated(exchange_data, category),
                       self.categories)
    IN  IF all # << >> THEN <<Mean(all)>> ELSE << >>

\* exchange_ratings: the means of the categories that hold ratings, in the
\* order of the category list
exchange_ratings(self, exchange_data) ==
    FlatMap(LAMBDA category :
                IF Rated(exchange_data, category) # << >>
                THEN <<Mean(Rated(exchange_data, category))>>
                ELSE << >>,
            self.categories)

\* performances.sort_by(|a, b| b.average.partial_cmp(&a.average).unwrap()):
\* a stable sort, the larger average first
RECURSIVE InsertByAverage(_, _)
InsertByAverage(p, sorted) ==
    IF sorted = << >> THEN <<p>>
    ELSE IF RatioLess(Head(sorted).average, p.average)
    THEN <<p>> \o sorted
    ELSE <<Head(sorted)>> \o InsertByAverage(p, Tail(sorted))

RECURSIVE sort_by(_)
sort_by(performances) ==
    IF performances = << >> THEN << >>
    ELSE InsertByAverage(performances[Len(performances)],
                         sort_by(SubSeq(performances, 1, Len(performances) - 1)))

\* the 5 of take(5)
TakePerformers == 5

take(s, n) == SubSeq(s, 1, IF Len(s) < n THEN Len(s) ELSE n)

\* rev_take_rev without the first rev(): the first n
rev_take_first(s, n) == SubSeq(s, 1, IF Len(s) < n THEN Len(s) ELSE n)

\* iter().rev().take(n) ... into_iter().rev(): the last n, in the same order
rev_take_rev(s, n) == SubSeq(s, IF Len(s) < n THEN 1 ELSE Len(s) - n + 1, Len(s))

NoAverages == [c \in {} |-> None]

\* category_totals with the ratings of an exchange put in place of the ones
\* collected so far: those of the last exchange that has any
category_totals_replaced(self, order) ==
    [c \in Range(self.categories) |->
        LET rated == SelectSeq(order, LAMBDA n : Rated(self.exchanges[n], c) # << >>)
        IN  IF rated = << >> THEN << >>
            ELSE Rated(self.exchanges[rated[Len(rated)]], c)]

\* category_totals: for each category of the list, the ratings of all the
\* exchanges, one after the other
category_totals(self, order) ==
    [c \in Range(self.categories) |->
        FlatMap(LAMBDA n : Rated(self.exchanges[n], c), order)]

\* `order` is the order in which the maps of exchanges (self.exchanges and
\* exchange_averages) iterate
generate_report(self, order) ==
    IF DOMAIN self.exchanges = {}
    THEN [total_exchanges |-> 0, total_ratings |-> 0, system_average |-> None,
          category_averages |-> NoAverages,
          top_performers |-> << >>, bottom_performers |-> << >>]
    ELSE LET all_ratings ==
                 FlatMap(LAMBDA n :
                             FlatMap(LAMBDA c : Rated(self.exchanges[n], c),
                                     self.categories),
                         order)
             totals == category_totals(self, order)
             performances ==
                 FlatMap(LAMBDA n :
                             IF exchange_ratings(self, self.exchanges[n]) # << >>
                             THEN <<[name |-> n,
                                     average |-> MeanOfRatios(
                                         exchange_ratings(self, self.exchanges[n]))]>>
                             ELSE << >>,
                         order)
             sorted == sort_by(performances)
         IN  [total_exchanges |-> Cardinality(DOMAIN self.exchanges),
              total_ratings |-> Len(all_ratings),
              system_average |-> IF all_ratings # << >>
                                 THEN Some(Mean(all_ratings)) ELSE None,
              category_averages |->
                  [c \in DOMAIN totals |->
                       IF totals[c] # << >> THEN Some(Mean(totals[c])) ELSE None],
              top_performers |-> take(sorted, TakePerformers),
              bottom_performers |-> rev_take_rev(sorted, TakePerformers)]

(***************************************************************************)
(* Exports.  `files` maps a path to the content of the file there.         *)
(***************************************************************************)
\* the other path an export is given
EXPORT == "export.out"
\* the `output_path` argument of the exports
OutputPaths == {STORAGE, EXPORT}

\* text that is a CSV table, and so no JSON document
Csv(records) == [kind |-> "csv", doc |-> records]

\* fs::write(path, data), and csv::Writer::from_path(path) ... flush()
write(files, path, data, io) ==
    IF io = "ok" THEN [files EXCEPT ![path] = data]
    ELSE IF io = "write fails" THEN [files EXCEPT ![path] = Malformed]
    ELSE files

\* export_to_json with the document written to the store's own path
export_to_json_to_storage(self, output_path, files, io) ==
    [files |-> write(files,
                     IF self.storage_path # None THEN self.storage_path[1]
                     ELSE output_path,
                     Document(to_string_pretty(self.exchanges)), io),
     res |-> IF io = "ok" THEN "Ok" ELSE "Err"]

export_to_json(self, output_path, files, io) ==
    [files |-> write(files, output_path,
                     Document(to_string_pretty(self.exchanges)), io),
     res |-> IF io = "ok" THEN "Ok" ELSE "Err"]

\* the header, then one record per rating: the exchanges in the map's
\* iteration order, the categories in the list's order, the index from 1
export_to_csv(self, output_path, files, order, io) ==
    LET records ==
            <<<<"exchange", "category", "rating", "index">>>> \o
            FlatMap(LAMBDA n :
                FlatMap(LAMBDA c :
                    [i \in 1 .. Len(Rated(self.exchanges[n], c)) |->
                        <<n, c, Rated(self.exchanges[n], c)[i], i>>],
                    self.categories),
                order)
    IN  [files |-> write(files, output_path, Csv(records), io),
         res |-> IF io = "ok" THEN "Ok" ELSE "Err"]

(***************************************************************************)
(* main: one process per command.  The store is constructed over STORAGE   *)
(* with the default categories; the result is the exit code.               *)
(***************************************************************************)
\* `lbtas view <exchange>`: what it prints, and its exit code
main_view(f, exchange) ==
    LET summary == view_ratings(new(Some(STORAGE), None, f), exchange) IN
    [res |-> IF summary.res = "Ok" THEN "exit 0" ELSE "exit 1",
     ratings |-> summary.ratings]

\* `lbtas rate <exchange>`: the process exits, or reads on for ever
main_rate(f, exchange, now, stdin, ios) ==
    LET system == new(Some(STORAGE), None, f)
        absent == exchange \notin Range(get_all_exchanges(system))
        created ==
            IF absent THEN add_exchange(system, f, exchange, now, Head(ios))
            ELSE Outcome(system, f, "Ok", FALSE)
    IN  IF created.res # "Ok"
        THEN Outcome(created.self, created.file, "exit 1", created.flushed)
        ELSE LET rated == rate_exchange(created.self, created.file, exchange, stdin,
                                        IF absent THEN Tail(ios) ELSE ios)
             IN  Outcome(rated.self, rated.file,
                         CASE rated.res = "Ok" -> "exit 0"
                           [] rated.res = "NeverReturns" -> "no exit"
                           [] OTHER -> "exit 1",
                         created.flushed \/ rated.flushed)

\* the lines of `list`: each exchange, by name, with the mean of the values
\* view_ratings gives (each a mean rounded to hundredths), or no ratings
list_averages(system) ==
    [i \in 1 .. Len(get_all_exchanges(system)) |->
        LET exchange == get_all_exchanges(system)[i]
            summary == view_ratings(system, exchange)
            criteria == SelectSeq(system.categories,
                                  LAMBDA c : /\ c \in DOMAIN summary.ratings
                                             /\ summary.ratings[c] # None)
            values == [k \in 1 .. Len(criteria) |->
                           Ratio(summary.ratings[criteria[k]][1], 100)]
        IN  [name |-> exchange,
             avg |-> IF values # << >> THEN Some(MeanOfRatios(values)) ELSE None]]

\* `lbtas list`
main_list(f) == list_averages(new(Some(STORAGE), None, f))

\* `lbtas report`: the report it prints from
main_report(f, order) == generate_report(new(Some(STORAGE), None, f), order)

\* `lbtas add <exchange> <criterion> <rating>`; io1 and io2 are what the
\* writes of add_exchange and of add_rating meet
main_add(f, exchange, criterion, arg, now, io1, io2) ==
    LET system == new(Some(STORAGE), None, f) IN
    IF arg \notin I8
    THEN Outcome(system, f, "exit 1", FALSE)
    ELSE LET created ==
                 IF exchange \notin Range(get_all_exchanges(system))
                 THEN add_exchange(system, f, exchange, now, io1)
                 ELSE Outcome(system, f, "Ok", FALSE)
         IN  IF created.res # "Ok"
             THEN Outcome(created.self, created.file, "exit 1", created.flushed)
             ELSE LET rated == add_rating(created.self, created.file, exchange,
                                          criterion, arg, io2)
                  IN  Outcome(rated.self, rated.file,
                              IF rated.res # "Ok" THEN "exit 1" ELSE "exit 0",
                              created.flushed \/ rated.flushed)

(***************************************************************************)
(* The state machine.                                                      *)
(***************************************************************************)
Self == System(categories, storage_path, exchanges)

\* the summed lengths of the sequences of an exchange, and of a store
RECURSIVE SumLens(_, _)
SumLens(ed, fs) ==
    IF fs = {} THEN 0
    ELSE LET f == CHOOSE x \in fs : TRUE IN Len(ed[f]) + SumLens(ed, fs \ {f})

RECURSIVE TotalRatings(_, _)
TotalRatings(exs, ns) ==
    IF ns = {} THEN 0
    ELSE LET n == CHOOSE x \in ns : TRUE
         IN  SumLens(exs[n], Fields) + TotalRatings(exs, ns \ {n})

WithinBounds(exs) == TotalRatings(exs, DOMAIN exs) <= MaxRatings

Constructed(path, cats, f) ==
    LET system == new(path, cats, f) IN
    /\ categories = system.categories
    /\ storage_path = system.storage_path
    /\ exchanges = system.exchanges
    /\ file = f
    /\ op = "new"
    /\ result = "Ok"
    /\ flushed = FALSE
    /\ failed_saves = 0
    /\ output = Missing
    /\ procs = << >>

\* The file found at the storage path is an input of new(): load_from_file
\* takes any document serde reads as StorageData.  This one holds a rating
\* add_rating would refuse.
DocOutOfRange ==
    Document({<<"acme",
        [reliability |-> <<7>>, usability |-> << >>, performance |-> << >>,
         support |-> << >>,
         _metadata |-> [created |-> "2024-01-01T00:00:00+00:00",
                        total_ratings |-> 1]]>>})

InitialFiles == {Missing, Malformed, DocOutOfRange}

Init ==
    \E path \in StoragePathArgs, cats \in CategoryArgs, f \in InitialFiles :
        \* a store without a path never reads or writes the file
        /\ (path = None => f = Missing)
        /\ Constructed(path, cats, f)

\* a store constructed where no storage file exists yet: the files it meets
\* later are the ones this program has written
InitFresh ==
    \E path \in StoragePathArgs, cats \in CategoryArgs :
        Constructed(path, cats, Missing)

\* operation `name` returns with outcome o
Becomes(o, name) ==
    /\ op' = name
    /\ result' = o.res
    /\ flushed' = o.flushed
    /\ categories' = o.self.categories
    /\ storage_path' = o.self.storage_path
    /\ exchanges' = o.self.exchanges
    /\ file' = o.file
    /\ failed_saves' = IF name \in {"new", "main add"} THEN 0
                       ELSE IF o.res = "SaveFailure" THEN failed_saves + 1
                       ELSE failed_saves
    /\ failed_saves' <= MaxFailedSaves
    /\ UNCHANGED <<output, procs>>
    /\ WithinBounds(o.self.exchanges)

\* a later process constructs the store over the storage file
New(cats) ==
    Becomes(Outcome(new(Some(STORAGE), cats, file), file, "Ok", FALSE), "new")

AddExchange(name) ==
    \E now \in Timestamps, io \in IoOutcomes :
        Becomes(add_exchange(Self, file, name, now, io), "add_exchange")

AddRating(name, criterion, rating) ==
    \E io \in IoOutcomes :
        Becomes(add_rating(Self, file, name, criterion, rating, io), "add_rating")

CmdAdd(exchange, criterion, arg) ==
    \E now \in Timestamps, io1 \in IoOutcomes, io2 \in IoOutcomes :
        Becomes(main_add(file, exchange, criterion, arg, now, io1, io2),
                "main add")

Next ==
    \/ \E cats \in CategoryArgs : New(cats)
    \/ \E name \in Names : AddExchange(name)
    \/ \E name \in Names, criterion \in Criteria, rating \in RatingInputs :
           AddRating(name, criterion, rating)

Spec == Init /\ [][Next]_vars

SpecFresh == InitFresh /\ [][Next]_vars

\* the command line alone: every step is one process over the storage file
InitCli == \E f \in InitialFiles : Constructed(Some(STORAGE), None, f)

NextCli ==
    \E exchange \in Names, criterion \in Criteria, arg \in RatingArgs :
        CmdAdd(exchange, criterion, arg)

SpecCli == InitCli /\ [][NextCli]_vars

(***************************************************************************)
(* The read operations, over stores drawn from a bounded set: each is a    *)
(* store constructed over the file a store of this program has written.    *)
(***************************************************************************)
\* the sequences the fields reliability and usability hold in a drawn store
RatedSequences == {<< >>, <<4>>, <<3, 1>>, <<0, 0, 1>>}

\* an exchange after add_rating has filled reliability and usability
ExchangeWith(reliability, usability) ==
    [ExchangeData_new("2024-01-01T00:00:00+00:00") EXCEPT
        !.reliability = reliability,
        !.usability = usability,
        !.metadata.total_ratings = Len(reliability) + Len(usability)]

\* the stores of at most two exchanges: "acme" with any of the sequences in
\* both fields, "b" unrated, rated like "acme" can be, or with 0, 0, 1
RatedStores ==
    {exs \in UNION {[S -> {ExchangeWith(r, u) : r \in RatedSequences,
                                                u \in RatedSequences}] :
                       S \in SUBSET Names} :
        "b" \in DOMAIN exs =>
            exs["b"] \in {ExchangeWith(<< >>, << >>), ExchangeWith(<<4>>, << >>),
                          ExchangeWith(<<0, 0, 1>>, <<4>>)}}

\* stores of six exchanges, one more than a performer list takes, with
\* averages that tie or not at the top, in the middle and at the end, and
\* with "f" rated or not
RankedStores ==
    {[n \in {"a", "b", "c", "d", "e", "f"} |->
         ExchangeWith(CASE n = "a" -> <<4>> [] n = "b" -> b
                        [] n = "c" -> c [] n = "d" -> d
                        [] n = "e" -> e [] OTHER -> f, << >>)] :
        b \in {<<3>>, <<4>>}, c \in {<<2>>, <<3>>}, d \in {<<1>>, <<2>>},
        e \in {<<0>>, <<1>>}, f \in {<< >>, <<-1>>, <<0>>}}

InitReport ==
    \E cats \in CategoryArgs, exs \in RatedStores :
        Constructed(Some(STORAGE), cats, Document(to_string_pretty(exs)))

\* "a" with reliability 4 and "b" with reliability 0
TwoRanked ==
    [n \in {"a", "b"} |->
        ExchangeWith(IF n = "a" THEN <<4>> ELSE <<0>>, << >>)]

InitRank ==
    \E exs \in RankedStores \cup {TwoRanked} :
        Constructed(Some(STORAGE), None, Document(to_string_pretty(exs)))

\* a method of &self returns: the store is the one it was
Returns(name, res) ==
    /\ op' = name
    /\ result' = res
    /\ flushed' = FALSE
    /\ UNCHANGED <<categories, storage_path, exchanges, file, failed_saves,
                   output, procs>>

ViewRatings(name) == Returns("view_ratings", view_ratings(Self, name))

GetAllExchanges == Returns("get_all_exchanges", get_all_exchanges(Self))

GenerateReport ==
    \E order \in IterationOrders(DOMAIN exchanges) :
        Returns("generate_report", generate_report(Self, order))

\* an export returns: the files are the ones it leaves
Exported(name, o) ==
    /\ op' = name
    /\ result' = o.res
    /\ flushed' = FALSE
    /\ file' = o.files[STORAGE]
    /\ output' = o.files[EXPORT]
    /\ UNCHANGED <<categories, storage_path, exchanges, failed_saves, procs>>

Files == (STORAGE :> file) @@ (EXPORT :> output)

ExportToJson(output_path) ==
    \E io \in IoOutcomes :
        Exported("export_to_json", export_to_json(Self, output_path, Files, io))

ExportToCsv(output_path) ==
    \E io \in IoOutcomes, order \in IterationOrders(DOMAIN exchanges) :
        Exported("export_to_csv",
                 export_to_csv(Self, output_path, Files, order, io))

\* a process of main that reads: its store is the one it constructs over the
\* storage file
Printed(name, res) ==
    LET system == new(Some(STORAGE), None, file) IN
    /\ op' = name
    /\ result' = res
    /\ flushed' = FALSE
    /\ categories' = system.categories
    /\ storage_path' = system.storage_path
    /\ exchanges' = system.exchanges
    /\ failed_saves' = 0
    /\ UNCHANGED <<file, output, procs>>

CmdList == Printed("main list", main_list(file))

CmdReport ==
    \E order \in IterationOrders(DOMAIN new(Some(STORAGE), None, file).exchanges) :
        Printed("main report", main_report(file, order))

NextReport ==
    \/ \E name \in Names : ViewRatings(name)
    \/ GetAllExchanges
    \/ GenerateReport
    \/ \E output_path \in OutputPaths : ExportToJson(output_path)
    \/ \E output_path \in OutputPaths : ExportToCsv(output_path)
    \/ CmdList
    \/ CmdReport

SpecReport == InitReport /\ [][NextReport]_vars

\* the store of Spec, from no storage file, with its reports
NextStoreReport ==
    \/ Next
    \/ GenerateReport

SpecStoreReport == InitFresh /\ [][NextStoreReport]_vars

\* generate_report alone, over the stores of six exchanges
SpecRank == InitRank /\ [][GenerateReport]_vars

(***************************************************************************)
(* The `rate` command alone.                                               *)
(***************************************************************************)
\* most ratings a store holds where `rate` runs: a round of the four default
\* categories and the start of another
MaxRated == 5

\* what the process reads: four accepted lines; lines refused between the
\* accepted ones; the input ending after two ratings; a read that fails
StdinScripts ==
    {<<"4", "4", "4", "4">>,
     <<"7", "-1", "x", "4", "200", "-1", "", "4">>,
     <<"4", "-1">>,
     <<"4", "read fails">>}

\* the writes of one process, of which there are at most five: all succeed,
\* or the first or the third fails
SaveScripts ==
    {[i \in 1 .. 5 |-> "ok"]} \cup
    {[i \in 1 .. 5 |-> IF i = k THEN io ELSE "ok"] :
        k \in {1, 3}, io \in IoOutcomes \ {"ok"}}

\* a process of main that writes ends with outcome o
Exits(o, name) ==
    /\ op' = name
    /\ result' = o.res
    /\ flushed' = o.flushed
    /\ categories' = o.self.categories
    /\ storage_path' = o.self.storage_path
    /\ exchanges' = o.self.exchanges
    /\ file' = o.file
    /\ failed_saves' = 0
    /\ UNCHANGED <<output, procs>>
    /\ TotalRatings(o.self.exchanges, DOMAIN o.self.exchanges) <= MaxRated

CmdRate(exchange) ==
    \E now \in Timestamps, stdin \in StdinScripts, ios \in SaveScripts :
        Exits(main_rate(file, exchange, now, stdin, ios), "main rate")

NextRate == \E exchange \in Names : CmdRate(exchange)

SpecRate == InitCli /\ [][NextRate]_vars

(***************************************************************************)
(* One store through add_exchange, add_rating and rate_exchange.           *)
(***************************************************************************)
\* what Utc::now().to_rfc3339() returns at two moments
Clock == {"2024-01-01T00:00:00+00:00", "2024-01-02T00:00:00+00:00"}

\* operation `name` of the store returns with outcome o
Steps(o, name) ==
    /\ op' = name
    /\ result' = o.res
    /\ flushed' = o.flushed
    /\ categories' = o.self.categories
    /\ storage_path' = o.self.storage_path
    /\ exchanges' = o.self.exchanges
    /\ file' = o.file
    /\ failed_saves' = IF o.res = "SaveFailure" THEN failed_saves + 1
                       ELSE failed_saves
    /\ failed_saves' <= MaxFailedSaves
    /\ UNCHANGED <<output, procs>>
    /\ TotalRatings(o.self.exchanges, DOMAIN o.self.exchanges) <= MaxRated

AddExchangeAt(name) ==
    \E now \in Clock, io \in IoOutcomes :
        Steps(add_exchange(Self, file, name, now, io), "add_exchange")

AddRatingTo(name, criterion, rating) ==
    \E io \in IoOutcomes :
        Steps(add_rating(Self, file, name, criterion, rating, io), "add_rating")

RateExchange(name) ==
    \E stdin \in StdinScripts, ios \in SaveScripts :
        Steps(rate_exchange(Self, file, name, stdin, ios), "rate_exchange")

\* the criteria and ratings given to add_rating here: a field and a name
\* that is none, a rating in the range and one outside
FewCriteria == {"reliability", "speed"}
FewRatings == {4, 5}

NextAppend ==
    \/ \E name \in Names : AddExchangeAt(name)
    \/ \E name \in Names, criterion \in FewCriteria, rating \in FewRatings :
           AddRatingTo(name, criterion, rating)
    \/ \E name \in Names : RateExchange(name)

\* a store without a storage path: it lives in memory alone
InitAppend == \E cats \in CategoryArgs : Constructed(None, cats, Missing)

SpecAppend == InitAppend /\ [][NextAppend]_vars

(***************************************************************************)
(* Two processes of `lbtas add <exchange> reliability 4` at the same time  *)
(* over one storage file, every write succeeding.  fs::write(path, data)   *)
(* is File::create(path), which empties the file, and then write_all(data) *)
(* from the start of the file: a process can run between the two.          *)
(***************************************************************************)
Pids == {1, 2}

\* the digits (and sign) of an integer of the model
IntLen(i) == IF i < 0 THEN 2 ELSE IF i < 10 THEN 1 ELSE 2

\* the length of the text to_string_pretty gives an array of ratings:
\* "[]", or a line per rating, indented by 6, between "[" and "    ]"
RatingsSize(ratings) ==
    IF ratings = << >> THEN 2
    ELSE 2 + SumOver(LAMBDA i : 6 + IntLen(ratings[i]) + 1, DOMAIN ratings)
           + (Len(ratings) - 1) + 5

\* ... of a member <<name, exchange>>: the line of the name, the lines of
\* the four fields and of _metadata (key, colon and indentation come to 19,
\* 17, 19, 15 and 19 + 46 + 24 + 6 characters) and the line of "  }"
MemberSize(m) ==
    LET name == m[1]
        j == m[2]
    IN  (IF name = "acme" THEN 4 ELSE 1) + 8
        + 19 + RatingsSize(j.reliability) + 2
        + 17 + RatingsSize(j.usability) + 2
        + 19 + RatingsSize(j.performance) + 2
        + 15 + RatingsSize(j.support) + 2
        + 19 + 46 + 24 + IntLen(j["_metadata"].total_ratings) + 6
        + 4

\* ... of the document: "{}", or the members, a comma between them, in
\* braces
DocSize(d) ==
    IF d = {} THEN 2
    ELSE 2 + SumOver(MemberSize, d) + (Cardinality(d) - 1) + 1

\* text of `size` characters that is no JSON document: a document followed
\* by the end of a longer one
Torn(size) == [kind |-> "malformed", doc |-> {}, size |-> size]

\* the length of the text in a file; a file just created is empty
Size(f) ==
    IF f.kind = "doc" THEN DocSize(f.doc)
    ELSE IF "size" \in DOMAIN f THEN f.size
    ELSE 0

\* write_all(data) from the start of file f: what f held beyond the length of
\* data stays
write_all(f, d) ==
    IF Size(f) <= DocSize(d) THEN Document(d) ELSE Torn(Size(f))

Process(pc, exchange, exs) == [pc |-> pc, exchange |-> exchange, exchanges |-> exs]

\* the store of process p
SystemOf(p) == System(DEFAULT_CATEGORIES, Some(STORAGE), procs[p].exchanges)

\* the storage file the two processes find: none, or one with "acme"
TwoFiles ==
    {Missing,
     Document(to_string_pretty([n \in {"acme"} |-> ExchangeWith(<<4>>, << >>)]))}

\* the variables of the single store are not used
InitTwo ==
    /\ categories = DEFAULT_CATEGORIES
    /\ storage_path = Some(STORAGE)
    /\ exchanges = NoExchanges
    /\ file \in TwoFiles
    /\ op = "start"
    /\ result = 0
    /\ flushed = FALSE
    /\ failed_saves = 0
    /\ output = Missing
    /\ procs \in [Pids -> {Process("start", e, NoExchanges) : e \in Names}]

\* process p has taken step `name`
Stepped(name, p) ==
    /\ op' = name
    /\ result' = p
    /\ UNCHANGED <<categories, storage_path, exchanges, flushed, failed_saves,
                   output>>

\* LevesonRatingSystem::new: the file is read as it is now
Load(p) ==
    /\ procs[p].pc = "start"
    /\ LET system == new(Some(STORAGE), None, file) IN
       procs' = [procs EXCEPT ![p] =
           Process(IF procs[p].exchange \notin Range(get_all_exchanges(system))
                   THEN "add_exchange" ELSE "add_rating",
                   procs[p].exchange, system.exchanges)]
    /\ file' = file
    /\ Stepped("load", p)

\* add_exchange or add_rating up to File::create: the store of the process
\* is changed and the file emptied
Create(p) ==
    /\ procs[p].pc \in {"add_exchange", "add_rating"}
    /\ \E now \in Timestamps :
           LET o == IF procs[p].pc = "add_exchange"
                    THEN add_exchange(SystemOf(p), file, procs[p].exchange, now, "ok")
                    ELSE add_rating(SystemOf(p), file, procs[p].exchange,
                                    "reliability", 4, "ok")
           IN  /\ o.res = "Ok"
               /\ procs' = [procs EXCEPT ![p] =
                      Process(IF procs[p].pc = "add_exchange"
                              THEN "write_exchange" ELSE "write_rating",
                              procs[p].exchange, o.self.exchanges)]
    /\ file' = Malformed
    /\ Stepped("create", p)

\* write_all of the document of the process's store; after the rating's the
\* process exits with 0
Write(p) ==
    /\ procs[p].pc \in {"write_exchange", "write_rating"}
    /\ file' = write_all(file, to_string_pretty(procs[p].exchanges))
    /\ procs' = [procs EXCEPT ![p] =
           Process(IF procs[p].pc = "write_exchange" THEN "add_rating" ELSE "done",
                   procs[p].exchange, procs[p].exchanges)]
    /\ Stepped("write", p)

NextTwo == \E p \in Pids : Load(p) \/ Create(p) \/ Write(p)

SpecTwo == InitTwo /\ [][NextTwo]_vars

(***************************************************************************)
(* Properties.                                                             *)
(***************************************************************************)
ValidRating(r) == r >= -1 /\ r <= 4

\* the persisted state: the exchanges a store constructed over the file holds
Persisted(f) == new(Some(STORAGE), None, f).exchanges

\* C1: starting from an empty store, after any add_exchange and add_rating
\* calls, accepted or rejected, saved or not, every exchange's total_ratings
\* is the sum of the lengths of its category sequences.
C1_TotalRatingsIsSumOfLengths ==
    \A n \in DOMAIN exchanges :
        exchanges[n].metadata.total_ratings = SumLens(exchanges[n], Fields)

\* an accepted rating whose save failed, on an exchange that by then holds
\* ratings in two categories
C1_Witness ==
    /\ op = "add_rating"
    /\ result = "SaveFailure"
    /\ \E n \in DOMAIN exchanges :
           /\ exchanges[n].metadata.total_ratings = 2
           /\ Len(exchanges[n].reliability) = 1
           /\ Len(exchanges[n].support) = 1

\* the three rejections of add_rating's validation
ValidationErrors == {"UnknownExchange", "InvalidCategory", "RatingOutOfRange"}

\* C2: an add_rating for an exchange that does not exist, a criterion that is
\* not in the store's categories, or a rating outside [-1, 4] (-2, 5) is
\* rejected by validation, and an add_rating rejected by validation leaves
\* the exchange map and the storage file as they were, with no write.
C2_RejectedAddRatingChangesNothing ==
    [][op' = "add_rating"
       => IF result' \in ValidationErrors
          THEN /\ exchanges' = exchanges
               /\ file' = file
               /\ flushed' = FALSE
          ELSE \A n \in Names, c \in Criteria, r \in RatingInputs :
                   ( \/ n \notin DOMAIN exchanges
                     \/ c \notin Range(categories)
                     \/ ~ValidRating(r) )
                   => ~AddRating(n, c, r)]_vars

\* a rating of -2 or 5 has been refused by a store that holds ratings and has
\* a written storage file
C2_Witness ==
    /\ op = "add_rating"
    /\ result = "RatingOutOfRange"
    /\ file.kind = "doc"
    /\ \E n \in DOMAIN exchanges : exchanges[n].metadata.total_ratings > 0

\* C3: every rating held in any category sequence of any exchange lies in
\* [-1, 4], whether the store began empty or was filled from its storage file.
C3_EveryRatingInRange ==
    \A n \in DOMAIN exchanges : \A f \in Fields :
        \A i \in 1 .. Len(exchanges[n][f]) : ValidRating(exchanges[n][f][i])

\* C4: no exchange holds a rating in a category outside the category list
\* the store was constructed with.
C4_NoRatingOutsideCategories ==
    \A n \in DOMAIN exchanges : \A f \in Fields :
        exchanges[n][f] # << >> => f \in Range(categories)

\* C5: for an existing exchange, a criterion of the store's category list and
\* a rating in [-1, 4], add_rating (its save not failing) succeeds, appends
\* the rating to that category's sequence, and view_ratings then gives that
\* category the mean, to two decimals, of the sequence with the new rating.
C5_ValidAddRatingSucceeds ==
    [][\A n \in Names, c \in Criteria, r \in RatingInputs :
          ( /\ op' = "add_rating"
            /\ result' # "SaveFailure"
            /\ n \in DOMAIN exchanges
            /\ c \in Range(categories)
            /\ ValidRating(r)
            /\ AddRating(n, c, r) )
          => /\ result' = "Ok"
             /\ exchanges'[n][c] = Append(exchanges[n][c], r)
             /\ LET summary == view_ratings(System(categories', storage_path',
                                                   exchanges'), n)
                IN  /\ summary.res = "Ok"
                    /\ summary.ratings[c] =
                           Some(MeanHundredths(Append(exchanges[n][c], r)))]_vars

\* C6: when the write of add_exchange or add_rating fails, the operation
\* fails, the new exchange or the pushed rating (with the incremented
\* total_ratings) stays in the store, and the persisted state is the one the
\* file held before.
C6_FailedSaveKeepsMemoryAndFile ==
    [][\A n \in Names, io \in IoOutcomes \ {"ok"} :
          /\ ( /\ op' = "add_exchange"
               /\ storage_path # None
               /\ n \notin DOMAIN exchanges
               /\ \E now \in Timestamps :
                      Becomes(add_exchange(Self, file, n, now, io), "add_exchange") )
             => /\ result' # "Ok"
                /\ n \in DOMAIN exchanges'
                /\ Persisted(file') = Persisted(file)
          /\ \A c \in Criteria, r \in RatingInputs :
               ( /\ op' = "add_rating"
                 /\ storage_path # None
                 /\ n \in DOMAIN exchanges
                 /\ c \in Range(categories) \cap Fields
                 /\ ValidRating(r)
                 /\ Becomes(add_rating(Self, file, n, c, r, io), "add_rating") )
               => /\ result' # "Ok"
                  /\ exchanges'[n][c] = Append(exchanges[n][c], r)
                  /\ exchanges'[n].metadata.total_ratings =
                         exchanges[n].metadata.total_ratings + 1
                  /\ Persisted(file') = Persisted(file)]_vars

\* C7: constructing a store over a missing file gives an empty store and no
\* error; constructing it over a file that cannot be parsed gives the caller
\* a load failure.
C7_MalformedFileIsALoadFailure ==
    (op = "new" /\ storage_path # None)
    => /\ file.kind = "missing" => (result = "Ok" /\ DOMAIN exchanges = {})
       /\ file.kind = "malformed" => result = "PersistenceLoadFailure"

\* C8: `add <exchange> <category> 7` (no write of the file failing) exits
\* with code 1 and leaves the persisted store as it was, so that
\* `view <exchange>` gives what it gave before, whether the exchange existed
\* or not.
C8_OutOfRangeAddChangesNothing ==
    [][\A e \in Names, c \in Criteria :
          ( /\ op' = "main add"
            /\ \E now \in Timestamps :
                   Becomes(main_add(file, e, c, 7, now, "ok", "ok"), "main add") )
          => /\ result' = "exit 1"
             /\ Persisted(file') = Persisted(file)
             /\ main_view(file', e) = main_view(file, e)]_vars

\* C9: right after an add_exchange or add_rating that returned Ok on a store
\* with a storage path, the storage file holds the document of the exchange
\* map, it parses back to that map, and a store constructed from the path is
\* the same store.
C9_SuccessIsSavedAndReloads ==
    (op \in {"add_exchange", "add_rating"} /\ result = "Ok" /\ storage_path # None)
    => /\ flushed
       /\ file.kind = "doc"
       /\ from_str(file) = [res |-> "Ok", exchanges |-> exchanges]
       /\ new(storage_path, Some(categories), file) = Self

\* a saved rating in a store of two exchanges that holds two ratings
C9_Witness ==
    /\ op = "add_rating"
    /\ result = "Ok"
    /\ storage_path # None
    /\ DOMAIN exchanges = Names
    /\ TotalRatings(exchanges, DOMAIN exchanges) = 2

\* C10: add_exchange of a name the store holds fails as a duplicate and
\* changes no exchange (nor the file); add_exchange of a new name adds one
\* exchange with empty sequences and total_ratings 0 and changes no other.
C10_AddExchangeDuplicateOrFresh ==
    [][\A n \in Names :
          (op' = "add_exchange" /\ AddExchange(n))
          => IF n \in DOMAIN exchanges
             THEN /\ result' = "DuplicateExchange"
                  /\ exchanges' = exchanges
                  /\ file' = file
             ELSE /\ result' \in {"Ok", "SaveFailure"}
                  /\ DOMAIN exchanges' = DOMAIN exchanges \cup {n}
                  /\ \A f \in Fields : exchanges'[n][f] = << >>
                  /\ exchanges'[n].metadata.total_ratings = 0
                  /\ exchanges'[n].metadata.created \in Timestamps
                  /\ \A m \in DOMAIN exchanges : exchanges'[m] = exchanges[m]]_vars

\* a duplicate add_exchange refused on a store whose exchange holds ratings
C10_Witness ==
    /\ op = "add_exchange"
    /\ result = "DuplicateExchange"
    /\ \E n \in DOMAIN exchanges : exchanges[n].metadata.total_ratings > 0

(***************************************************************************)
(* Reports.                                                                *)
(***************************************************************************)
RECURSIVE ProductOver(_, _)
ProductOver(F(_), S) ==
    IF S = {} THEN 1
    ELSE LET x == CHOOSE y \in S : TRUE IN F(x) * ProductOver(F, S \ {x})

\* the ratings exchange n holds in category c of the store
Held(n, c) == IF c \in Fields THEN exchanges[n][c] ELSE << >>

\* the categories of the store in which exchange n holds ratings
RatedCategories(n) == {c \in Range(categories) : Held(n, c) # << >>}

\* the fraction avg is the mean, over the rated categories of n, of the
\* category's mean: avg * k = sum of Sum(c) / Len(c), cleared of fractions
IsMeanOfMeans(avg, n) ==
    LET cs == RatedCategories(n)
        L == ProductOver(LAMBDA c : Len(Held(n, c)), cs)
    IN  avg[1] * Cardinality(cs) * L =
            avg[2] * SumOver(LAMBDA c : Sum(Held(n, c)) * (L \div Len(Held(n, c))),
                             cs)

\* the entries of a performer list that name n
Entries(performers, n) ==
    {i \in 1 .. Len(performers) : performers[i].name = n}

\* C11: generate_report gives an exchange that holds ratings the mean of the
\* means of its rated categories (3, 1 and 4 in two categories give 3, not
\* the flat mean 8/3), once in the ranking; an exchange with no rating in any
\* category has no average and is in neither performer list.
C11_AverageIsMeanOfCategoryMeans ==
    (op = "generate_report")
    => \A n \in DOMAIN exchanges :
           IF RatedCategories(n) # {}
           THEN /\ Cardinality(Entries(result.top_performers, n)) = 1
                /\ \A i \in Entries(result.top_performers, n) :
                       IsMeanOfMeans(result.top_performers[i].average, n)
           ELSE /\ Entries(result.top_performers, n) = {}
                /\ Entries(result.bottom_performers, n) = {}

\* the report of a store where "acme" holds 3, 1 and 4 and "b" holds nothing
C11_Witness ==
    /\ op = "generate_report"
    /\ DOMAIN exchanges = {"acme", "b"}
    /\ exchanges["acme"].reliability = <<3, 1>>
    /\ exchanges["acme"].usability = <<4>>
    /\ "usability" \in Range(categories)
    /\ exchanges["b"].metadata.total_ratings = 0
    /\ result.top_performers = <<[name |-> "acme", average |-> <<3, 1>>]>>

\* the exchanges of the store that hold ratings
RatedExchanges == {n \in DOMAIN exchanges : RatedCategories(n) # {}}

Min(a, b) == IF a < b THEN a ELSE b

\* performers is a ranking of all the rated exchanges: each once, with its
\* average, no entry before one of a larger average
IsRanking(performers) ==
    /\ Len(performers) = Cardinality(RatedExchanges)
    /\ \A n \in RatedExchanges : Cardinality(Entries(performers, n)) = 1
    /\ \A i \in 1 .. Len(performers) :
           /\ performers[i].name \in RatedExchanges
           /\ IsMeanOfMeans(performers[i].average, performers[i].name)
           /\ \A j \in i + 1 .. Len(performers) :
                  ~RatioLess(performers[i].average, performers[j].average)

\* C12: with n rated exchanges, top_performers is the first min(5, n) and
\* bottom_performers the last min(5, n) entries of one ranking of the rated
\* exchanges by descending average; for a (reliability 4) and b (reliability
\* 0) the top performer is a with 4 and the bottom performer is b with 0.
C12_TopAndBottomOfOneRanking ==
    (op = "generate_report")
    => LET top == result.top_performers
           bottom == result.bottom_performers
           n == Cardinality(RatedExchanges)
           k == Min(TakePerformers, n)
           ranking == top \o SubSeq(bottom, 2 * k - n + 1, k)
       IN  /\ Len(top) = k
           /\ Len(bottom) = k
           /\ IsRanking(ranking)
           /\ top = SubSeq(ranking, 1, k)
           /\ bottom = SubSeq(ranking, n - k + 1, n)
           /\ exchanges = TwoRanked
              => /\ top[1] = [name |-> "a", average |-> <<4, 1>>]
                 /\ bottom[k] = [name |-> "b", average |-> <<0, 1>>]

\* the report of a store of six rated exchanges where "e" and "f" tie for the
\* fifth place: "f" got it, and "e" is only in the bottom list
C12_Witness ==
    /\ op = "generate_report"
    /\ Cardinality(RatedExchanges) = 6
    /\ Len(result.top_performers) = 5
    /\ result.top_performers[5].name = "f"
    /\ result.bottom_performers[5].name = "e"
    /\ result.bottom_performers[1].name # result.top_performers[1].name

\* C13: two reports over stores that hold the same exchanges (here two
\* `report` processes, one after the other, over the same storage file) give
\* the same top_performers and the same bottom_performers.
C13_EqualStoresRankAlike ==
    [][(op = "main report" /\ op' = "main report" /\ exchanges' = exchanges)
       => /\ result'.top_performers = result.top_performers
          /\ result'.bottom_performers = result.bottom_performers]_vars

\* every rating the store holds in category c, over all exchanges
HeldBy(c) == FlatMap(LAMBDA n : Held(n, c), get_all_exchanges(Self))

\* every rating the store holds
AllHeld ==
    FlatMap(LAMBDA n : FlatMap(LAMBDA c : Held(n, c), categories),
            get_all_exchanges(Self))

\* the Option of a fraction is the mean of the ratings, None for no ratings
IsMeanOrNone(average, ratings) ==
    IF ratings = << >> THEN average = None
    ELSE /\ average # None
         /\ average[1][1] * Len(ratings) = average[1][2] * Sum(ratings)

\* C14: the report's system_average is the flat mean of every rating of
\* every exchange and category, None exactly for a store without ratings;
\* its total_ratings is the sum of the exchanges' total_ratings counters and
\* its total_exchanges the number of exchanges; the report of an empty store
\* is 0 exchanges, no system average and empty performer lists.
C14_SystemAverageAndTotals ==
    (op = "generate_report")
    => /\ IsMeanOrNone(result.system_average, AllHeld)
       /\ result.total_ratings =
              SumOver(LAMBDA n : exchanges[n].metadata.total_ratings,
                      DOMAIN exchanges)
       /\ result.total_exchanges = Cardinality(DOMAIN exchanges)
       /\ DOMAIN exchanges = {}
          => /\ result.system_average = None
             /\ result.top_performers = << >>
             /\ result.bottom_performers = << >>

\* C15: for every category of the store's list the report gives a
\* per-category average: the flat mean of every rating of that category
\* over all exchanges, None when no exchange holds a rating in it, and so
\* also when the store has no exchanges.
C15_CategoryAverageForEveryCategory ==
    (op = "generate_report")
    => \A c \in Range(categories) :
           /\ c \in DOMAIN result.category_averages
           /\ IsMeanOrNone(result.category_averages[c], HeldBy(c))

\* C15 as amended: the report of a store with exchanges gives every
\* category of the list its flat mean or None; the report of a store with no
\* exchanges gives no category an average: its category_averages is empty.
C15_CategoryAverageUnlessEmptyStore ==
    (op = "generate_report")
    => IF DOMAIN exchanges # {}
       THEN /\ DOMAIN result.category_averages = Range(categories)
            /\ \A c \in Range(categories) :
                   IsMeanOrNone(result.category_averages[c], HeldBy(c))
       ELSE DOMAIN result.category_averages = {}

\* the report of a store where reliability holds 3, 1 in one exchange and
\* 0, 0, 1 in the other (mean 1) and performance holds nothing
C15_Witness ==
    /\ op = "generate_report"
    /\ DOMAIN exchanges = {"acme", "b"}
    /\ exchanges["acme"].reliability = <<3, 1>>
    /\ exchanges["b"].reliability = <<0, 0, 1>>
    /\ result.category_averages["reliability"] = Some(<<1, 1>>)
    /\ "performance" \in Range(categories)
    /\ result.category_averages["performance"] = None

\* C20: the average `list` prints for a rated exchange is the average
\* generate_report gives the same exchange of the same store in its ranking.
C20_ListAverageIsReportAverage ==
    (op = "main list")
    => \A i \in 1 .. Len(result) :
           result[i].avg # None
           => \A order \in IterationOrders(DOMAIN exchanges) :
                  LET top == generate_report(Self, order).top_performers IN
                  \E k \in 1 .. Len(top) :
                      /\ top[k].name = result[i].name
                      /\ top[k].average = result[i].avg[1]

(***************************************************************************)
(* Rating, appending, reading.                                             *)
(***************************************************************************)
\* the values in [-1, 4] among the lines of the model, in their order
AcceptedValues(stdin) ==
    LET lines == SelectSeq(stdin, LAMBDA line : line \in {"-1", "4"}) IN
    [i \in 1 .. Len(lines) |-> IF lines[i] = "-1" THEN -1 ELSE 4]

\* C16: a `rate <exchange>` that exits with 0 has created the exchange if it
\* was absent and given every configured category, in the list's order, one
\* more rating at the end of its sequence: the next value in [-1, 4] of the
\* input; total_ratings has grown by the number of categories.
C16_RateAddsOnePerCategory ==
    [][\A e \in Names, stdin \in StdinScripts, ios \in SaveScripts :
          ( /\ op' = "main rate"
            /\ result' = "exit 0"
            /\ \E now \in Timestamps :
                   Exits(main_rate(file, e, now, stdin, ios), "main rate") )
          => LET before == Persisted(file)
                 was == IF e \in DOMAIN before THEN before[e]
                        ELSE ExchangeData_new("")
             IN  /\ e \in DOMAIN exchanges'
                 /\ \A i \in 1 .. Len(categories') :
                        LET c == categories'[i] IN
                        /\ c \in Fields
                        /\ ValidRating(AcceptedValues(stdin)[i])
                        /\ exchanges'[e][c] =
                               Append(was[c], AcceptedValues(stdin)[i])
                 /\ exchanges'[e].metadata.total_ratings =
                        was.metadata.total_ratings + Len(categories')]_vars

\* a `rate acme` that skipped the refused lines has exited with 0: "acme",
\* which held one rating, holds five
C16_Witness ==
    /\ op = "main rate"
    /\ result = "exit 0"
    /\ "acme" \in DOMAIN exchanges
    /\ exchanges["acme"].reliability = <<7, -1>>
    /\ exchanges["acme"].usability = <<4>>
    /\ exchanges["acme"].performance = <<-1>>
    /\ exchanges["acme"].support = <<4>>
    /\ exchanges["acme"].metadata.total_ratings = 5

IsPrefix(s, t) == Len(s) <= Len(t) /\ SubSeq(t, 1, Len(s)) = s

\* C18: over every step of add_exchange, add_rating and rate_exchange no
\* exchange is removed, no creation timestamp changes and every sequence of
\* before is a prefix of the same sequence after; an accepted add_rating
\* appends its rating to the named category of the named exchange and
\* changes no other sequence.
C18_SequencesAreAppendOnly ==
    [][op' \in {"add_exchange", "add_rating", "rate_exchange"}
       => /\ DOMAIN exchanges \subseteq DOMAIN exchanges'
          /\ \A n \in DOMAIN exchanges :
                 /\ exchanges'[n].metadata.created = exchanges[n].metadata.created
                 /\ \A f \in Fields : IsPrefix(exchanges[n][f], exchanges'[n][f])
          /\ (op' = "add_rating" /\ result' \in {"Ok", "SaveFailure"})
             => \A n \in Names, c \in FewCriteria, r \in FewRatings :
                    AddRatingTo(n, c, r)
                    => /\ c \in Fields
                       /\ DOMAIN exchanges' = DOMAIN exchanges
                       /\ exchanges'[n][c] = Append(exchanges[n][c], r)
                       /\ \A m \in DOMAIN exchanges, f \in Fields :
                              <<m, f>> # <<n, c>>
                              => exchanges'[m][f] = exchanges[m][f]]_vars

\* a rate_exchange has returned Ok on an exchange that held a rating, in a
\* store whose two exchanges were created at different times
C18_Witness ==
    /\ op = "rate_exchange"
    /\ result = "Ok"
    /\ DOMAIN exchanges = {"acme", "b"}
    /\ exchanges["acme"].metadata.created # exchanges["b"].metadata.created
    /\ exchanges["acme"].reliability = <<4, -1>>
    /\ exchanges["acme"].support = <<4>>

\* the operations that take &self and no output path, and the exports
Reads == {"view_ratings", "get_all_exchanges", "generate_report"}
Exports == {"export_to_json", "export_to_csv"}

\* C19: view_ratings, get_all_exchanges, generate_report and the two exports
\* leave the exchange map, the category list and the storage file as they
\* were, whether they succeed or fail.
C19_ReadsAndExportsChangeNothing ==
    [][op' \in Reads \cup Exports
       => /\ exchanges' = exchanges
          /\ categories' = categories
          /\ file' = file]_vars

\* C19 as amended: all five leave the exchange map and the category list as
\* they were; view_ratings, get_all_exchanges and generate_report write no
\* file; an export writes the file at its output path only, so that the
\* storage file is as it was when the output path is another path.
C19_ReadsChangeNothingExportsTheirOutput ==
    [][/\ op' \in Reads \cup Exports
          => /\ exchanges' = exchanges
             /\ categories' = categories
             /\ storage_path' = storage_path
       /\ op' \in Reads => (file' = file /\ output' = output)
       /\ (op' \in Exports /\ (ExportToJson(EXPORT) \/ ExportToCsv(EXPORT)))
          => file' = file]_vars

\* an export to another path has written its table there, from a store with
\* ratings whose storage file holds its document
C19_Witness ==
    /\ op = "export_to_csv"
    /\ result = "Ok"
    /\ output.kind = "csv"
    /\ Len(output.doc) > 2
    /\ file = Document(to_string_pretty(exchanges))

(***************************************************************************)
(* Two processes.                                                          *)
(***************************************************************************)
\* both processes have exited with 0; the last step was the last write
BothDone == procs # << >> /\ \A p \in Pids : procs[p].pc = "done"

\* C17: when two processes load, change and save over the same storage file
\* and their steps interleave, the file in the end holds exactly the store
\* of the process that wrote last.
C17_LastWriterWins ==
    BothDone => file = Document(to_string_pretty(procs[result].exchanges))

====
